---------------------------- MODULE Spec2Model ----------------------------
(***************************************************************************)
(* Model of the information-retrieval pipeline:                            *)
(*   Data_Cleaner.py   DataCleaner.clean_text        (build-time cleaner)  *)
(*   Data_Cleaner.py   clean_and_store_all_posts     (table write-back)    *)
(*   Inverted_Index.py InvertedIndexBuilder           (index construction) *)
(*   Ranked_search.py  SearchEngine                   (query engine)       *)
(*                                                                         *)
(* A text is a sequence of characters; a character is a one-element        *)
(* string, except for the three non-ASCII characters, which are written    *)
(* "e_acute", "E_ACUTE" (an accented letter and its capital) and "nbsp"    *)
(* (U+00A0, a non-ASCII white space); "backtick" is the grave accent.  A   *)
(* document id n stands for the key str(n) used in the JSON artifacts.     *)
(***************************************************************************)
EXTENDS Integers, Sequences, FiniteSets, TLC

VARIABLES
    text,            \* normalisation harness: the raw input text
    build_tokens,    \* tokens the index would hold for text
    query_tokens,    \* tokens the engine derives from text as a query
    norm_pc,         \* "input" before, "done" after both normalisers ran
    posts,           \* rows returned by fetch_all_posts_for_indexing()
    index_file,      \* data_store/inverted_index.json
    metadata_file,   \* data_store/post_metadata.json
    post_files,      \* data_store/json_posts/post_<id>.json, by id
    engine,          \* the SearchEngine object of the running process
    lastOp,          \* the operation that just completed, "idle" between two
    query,           \* argument of the last operation (search, show_post_info)
    ret,             \* list returned by the last operation (search)
    out,             \* what the last operation printed (its signal)
    removals,        \* per-document artifacts lost from the store so far
    db_posts         \* the posts table: its columns and its rows

normVars  == <<text, build_tokens, query_tokens, norm_pc>>
storeVars == <<posts, index_file, metadata_file, post_files>>
callVars  == <<lastOp, query, ret, out>>
dbVars    == <<db_posts>>
vars == <<text, build_tokens, query_tokens, norm_pc, posts, index_file,
          metadata_file, post_files, engine, lastOp, query, ret, out,
          removals, db_posts>>

-----------------------------------------------------------------------------
(* Bounds of the model *)

\* number of pieces a harness text is concatenated from
MaxPieces == 2
\* number of documents of a small corpus
MaxDocs == 2
\* number of documents of the large corpus (more than the result cap, also
\* after one artifact is lost)
BulkDocs == 22
\* number of per-document artifacts the environment may remove
MaxRemovals == 1
\* number of rows of a posts table given to the cleaner
MaxTableRows == 2

-----------------------------------------------------------------------------
(* Characters: Python's str methods and the re character classes *)

UpperLetters == <<"A","B","C","D","E","F","G","H","I","J","K","L","M",
                  "N","O","P","Q","R","S","T","U","V","W","X","Y","Z">>
LowerLetters == <<"a","b","c","d","e","f","g","h","i","j","k","l","m",
                  "n","o","p","q","r","s","t","u","v","w","x","y","z">>
AsciiLetters == {UpperLetters[i] : i \in 1..26} \cup {LowerLetters[i] : i \in 1..26}
Digits       == {"0","1","2","3","4","5","6","7","8","9"}
\* string.punctuation
Punctuation  == {"!","\"","#","$","%","&","'","(",")","*","+",",","-",".","/",
                 ":",";","<","=",">","?","@","[","\\","]","^","_","backtick","{","|","}","~"}
AsciiSpace   == {" ", "\t", "\n"}
NonAscii     == {"e_acute", "E_ACUTE", "nbsp"}

\* \s and \S of re on str patterns (Unicode white space)
IsSpace(c) == c \in AsciiSpace \cup {"nbsp"}
\* str.isalpha for one character
IsAlphaChar(c) == c \in AsciiLetters \cup {"e_acute", "E_ACUTE"}
\* \w of re on str patterns: Unicode letters, digits and the underscore
IsWordChar(c) == IsAlphaChar(c) \/ c \in Digits \/ c = "_"

\* str.lower
LowerChar(c) ==
    IF c = "E_ACUTE" THEN "e_acute"
    ELSE IF \E i \in 1..26 : UpperLetters[i] = c
         THEN LowerLetters[CHOOSE i \in 1..26 : UpperLetters[i] = c]
         ELSE c
lower(s) == [i \in 1..Len(s) |-> LowerChar(s[i])]

\* str.isalpha: non-empty and every character alphabetic
isalpha(w) == Len(w) > 0 /\ \A i \in 1..Len(w) : IsAlphaChar(w[i])

RECURSIVE Flatten(_)
Flatten(ss) == IF ss = <<>> THEN <<>> ELSE Head(ss) \o Flatten(Tail(ss))

RECURSIVE SelectChars(_, _)
\* s without the characters of the set drop
SelectChars(s, drop) ==
    IF s = <<>> THEN <<>>
    ELSE IF Head(s) \in drop THEN SelectChars(Tail(s), drop)
         ELSE <<Head(s)>> \o SelectChars(Tail(s), drop)

-----------------------------------------------------------------------------
(* The regular-expression substitutions *)

RECURSIVE NonSpaceRun(_, _)
\* length of the longest run of \S starting at position i
NonSpaceRun(s, i) ==
    IF i > Len(s) \/ IsSpace(s[i]) THEN 0 ELSE 1 + NonSpaceRun(s, i + 1)

RECURSIVE WordRun(_, _)
\* length of the longest run of \w starting at position i
WordRun(s, i) ==
    IF i > Len(s) \/ ~IsWordChar(s[i]) THEN 0 ELSE 1 + WordRun(s, i + 1)

HasPrefixAt(s, i, p) ==
    /\ i + Len(p) - 1 <= Len(s)
    /\ SubSeq(s, i, i + Len(p) - 1) = p

\* length of a match of prefix p followed by \S+ at position i, 0 if none
PrefixRunLen(s, i, p) ==
    IF HasPrefixAt(s, i, p) /\ NonSpaceRun(s, i + Len(p)) >= 1
    THEN Len(p) + NonSpaceRun(s, i + Len(p))
    ELSE 0

\* length of the match of https?://\S+|www\.\S+ at position i, 0 if none
UrlMatchLen(s, i) ==
    LET https == PrefixRunLen(s, i, <<"h","t","t","p","s",":","/","/">>)
        http  == PrefixRunLen(s, i, <<"h","t","t","p",":","/","/">>)
        www   == PrefixRunLen(s, i, <<"w","w","w",".">>)
    IN  IF https > 0 THEN https ELSE IF http > 0 THEN http ELSE www

RECURSIVE StripUrlsFrom(_, _)
StripUrlsFrom(s, i) ==
    IF i > Len(s) THEN <<>>
    ELSE IF UrlMatchLen(s, i) > 0 THEN StripUrlsFrom(s, i + UrlMatchLen(s, i))
         ELSE <<s[i]>> \o StripUrlsFrom(s, i + 1)
\* re.sub(r'https?://\S+|www\.\S+', '', text)
StripUrls(s) == StripUrlsFrom(s, 1)

\* length of the match of [@#]\w+ at position i, 0 if none
TagMatchLen(s, i) ==
    IF s[i] \in {"@", "#"} /\ WordRun(s, i + 1) >= 1
    THEN 1 + WordRun(s, i + 1) ELSE 0

RECURSIVE StripTagsFrom(_, _)
StripTagsFrom(s, i) ==
    IF i > Len(s) THEN <<>>
    ELSE IF TagMatchLen(s, i) > 0 THEN StripTagsFrom(s, i + TagMatchLen(s, i))
         ELSE <<s[i]>> \o StripTagsFrom(s, i + 1)
\* re.sub(r'[@#]\w+', '', text)
StripTags(s) == StripTagsFrom(s, 1)

\* re.sub(r'\d+', '', text)
StripDigits(s) == SelectChars(s, Digits)
\* re.sub(r'[^\x00-\x7F]+', '', text)
StripNonAscii(s) == SelectChars(s, NonAscii)
\* text.translate(str.maketrans('', '', string.punctuation))
StripPunctuation(s) == SelectChars(s, Punctuation)

RECURSIVE TokenizeFrom(_, _)
TokenizeFrom(s, i) ==
    IF i > Len(s) THEN <<>>
    ELSE IF IsSpace(s[i]) THEN TokenizeFrom(s, i + 1)
         ELSE <<SubSeq(s, i, i + NonSpaceRun(s, i) - 1)>>
              \o TokenizeFrom(s, i + NonSpaceRun(s, i))
\* WhitespaceTokenizer().tokenize: split at runs of white space, no empty token
tokenize(s) == TokenizeFrom(s, 1)

RECURSIVE JoinSpace(_)
\* " ".join(tokens)
JoinSpace(ts) ==
    IF ts = <<>> THEN <<>>
    ELSE IF Len(ts) = 1 THEN ts[1]
         ELSE ts[1] \o <<" ">> \o JoinSpace(Tail(ts))

-----------------------------------------------------------------------------
(* Stop words and the stemmer (nltk) *)

\* the entries of stopwords.words('english') that the model's texts use
stop_words == { <<"t","h","e">>, <<"i","s">>, <<"a","n","d">>, <<"a">> }

EndsWith(w, suf) ==
    Len(w) >= Len(suf) /\ SubSeq(w, Len(w) - Len(suf) + 1, Len(w)) = suf
DropLast(w, n) == SubSeq(w, 1, Len(w) - n)

\* PorterStemmer().stem: words of at most two letters are returned as they
\* are; the plural rules of step 1a (sses -> ss, ies -> i or ie, ss -> ss,
\* s -> "").  The words of the model are ones no later step changes.
stem(w) ==
    IF Len(w) <= 2 THEN w
    ELSE IF EndsWith(w, <<"s","s","e","s">>) THEN DropLast(w, 2)
    ELSE IF EndsWith(w, <<"i","e","s">>)
         THEN (IF Len(w) = 4 THEN DropLast(w, 1) ELSE DropLast(w, 2))
    ELSE IF EndsWith(w, <<"s","s">>) THEN w
    ELSE IF EndsWith(w, <<"s">>) THEN DropLast(w, 1)
    ELSE w

-----------------------------------------------------------------------------
(* DataCleaner.clean_text, InvertedIndexBuilder.tokenize_text,             *)
(* SearchEngine.preprocess_query                                           *)

\* the filter of clean_text: not a stop word, alphabetic, longer than 2
CleanKeep(word) == word \notin stop_words /\ isalpha(word) /\ Len(word) > 2

RECURSIVE CleanStem(_)
\* [stemmer.stem(word) for word in tokens if CleanKeep(word)]
CleanStem(ts) ==
    IF ts = <<>> THEN <<>>
    ELSE IF CleanKeep(Head(ts)) THEN <<stem(Head(ts))>> \o CleanStem(Tail(ts))
         ELSE CleanStem(Tail(ts))

\* DataCleaner.clean_text: the cleaned string stored in posts.clean_text
clean_text(s) ==
    IF s = <<>> THEN <<>>
    ELSE JoinSpace(CleanStem(
             tokenize(StripPunctuation(StripNonAscii(StripDigits(
                 StripTags(StripUrls(lower(s)))))))))

\* InvertedIndexBuilder.tokenize_text
tokenize_text(s) == IF s = <<>> THEN <<>> ELSE tokenize(s)

\* the filter of preprocess_query: alphabetic and not a stop word
QueryKeep(word) == isalpha(word) /\ word \notin stop_words

RECURSIVE QueryStem(_)
\* [stemmer.stem(word) for word in tokens if QueryKeep(word)]
QueryStem(ts) ==
    IF ts = <<>> THEN <<>>
    ELSE IF QueryKeep(Head(ts)) THEN <<stem(Head(ts))>> \o QueryStem(Tail(ts))
         ELSE QueryStem(Tail(ts))

\* SearchEngine.preprocess_query
preprocess_query(Query) ==
    QueryStem(tokenize(StripPunctuation(StripTags(lower(Query)))))

-----------------------------------------------------------------------------
(* Texts of the model *)

Cats    == <<"C","a","t","s">>
CatWord == <<"c","a","t">>
Dogs    == <<"d","o","g","s">>
The     == <<"T","h","e">>
Go      == <<"g","o">>
Space   == <<" ">>

\* the pieces a harness text is concatenated from
Pieces == { Cats, Go, The, Space, <<"1">>, <<"!">>, <<"#">>, <<"e_acute">>,
            <<"nbsp">>, <<"w","w","w",".","a">>,
            <<"h","t","t","p",":","/","/","a">> }

HarnessTexts ==
    { Flatten(ps) : ps \in UNION { [1..n -> Pieces] : n \in 0..MaxPieces } }

\* raw texts of the posts of a small corpus: "Cats cat", "cat dogs", "The 12!"
DocTexts == { Cats \o Space \o CatWord,
              CatWord \o Space \o Dogs,
              The \o Space \o <<"1","2","!">> }

RECURSIVE Repeat(_, _)
\* n copies of word w separated by blanks
Repeat(w, n) == IF n <= 1 THEN w ELSE w \o Space \o Repeat(w, n - 1)

\* raw text of post i of the large corpus: "Cats" one to three times
BulkText(i) == Repeat(Cats, 1 + (i % 3))

\* a row of fetch_all_posts_for_indexing(); clean_text is the column that
\* DataCleaner.clean_and_store_all_posts wrote for the raw text
PostRow(i, raw) ==
    [post_id |-> i, clean_text |-> clean_text(raw), likes |-> i,
     comment_count |-> 0, post_date_only |-> "NULL"]

SmallCorpora ==
    { [i \in DOMAIN f |-> PostRow(i, f[i])] :
        f \in UNION { [1..n -> DocTexts] : n \in 0..MaxDocs } }

\* the large corpus: more documents with the term than a result may hold
BulkCorpus == [i \in 1..BulkDocs |-> PostRow(i, BulkText(i))]

\* the corpora of the runs that rank many documents: the large corpus and
\* the corpora of one document
RankCorpora == {BulkCorpus} \cup { c \in SmallCorpora : Len(c) = 1 }

\* The rows of a small corpus as a fetch may return them: the query has no
\* ORDER BY and names no key, so the rows come in any order and a row may
\* come more than once.
RowCorpora ==
    UNION { { [k \in 1..n |-> c[g[k]]] : g \in [1..n -> DOMAIN c] } :
            c \in SmallCorpora, n \in 0..MaxDocs }

\* the corpora a build may find in the document store
Corpora == SmallCorpora \cup RankCorpora \cup RowCorpora

-----------------------------------------------------------------------------
(* InvertedIndexBuilder.build_inverted_index *)

Range(f) == { f[x] : x \in DOMAIN f }
SeqContains(sq, x) == \E i \in 1..Len(sq) : sq[i] = x

\* Counter(tokens): term -> number of occurrences
Counter(tokens) ==
    [t \in Range(tokens) |->
        Cardinality({ i \in 1..Len(tokens) : tokens[i] = t })]

\* max(freq, key=freq.get): the first key, in the Counter's insertion order
\* (order of first occurrence), that has the largest count
MaxTfTerm(tokens) ==
    LET freq == Counter(tokens)
        best == CHOOSE i \in 1..Len(tokens) :
                  /\ \A j \in 1..Len(tokens) : freq[tokens[j]] <= freq[tokens[i]]
                  /\ \A j \in 1..(i - 1) : freq[tokens[j]] < freq[tokens[i]]
    IN  tokens[best]

\* the metadata record of one post
PostMetadata(post, tokens) ==
    [max_tf_term |-> MaxTfTerm(tokens),
     max_tf      |-> Counter(tokens)[MaxTfTerm(tokens)],
     length      |-> Len(tokens),
     likes       |-> post.likes,
     comments    |-> post.comment_count,
     date        |-> IF post.post_date_only = "NULL" THEN "None"
                     ELSE post.post_date_only]

\* inverted_index[term] of the defaultdict
IndexEntry(idx, term) ==
    IF term \in DOMAIN idx THEN idx[term]
    ELSE [df |-> 0, tf_total |-> 0, post_ids |-> <<>>]

\* variant of AccumulateEntry: df grows by the occurrences, not by one
AccumulateEntry_DfByTf(e, post_id, tf) ==
    IF SeqContains(e.post_ids, post_id)
    THEN [e EXCEPT !.tf_total = @ + tf]
    ELSE [df |-> e.df + tf, tf_total |-> e.tf_total + tf,
          post_ids |-> Append(e.post_ids, post_id)]

\* variant of AccumulateEntry: tf_total grows by one per post
AccumulateEntry_TfPerPost(e, post_id, tf) ==
    IF SeqContains(e.post_ids, post_id)
    THEN [e EXCEPT !.tf_total = @ + 1]
    ELSE [df |-> e.df + 1, tf_total |-> e.tf_total + 1,
          post_ids |-> Append(e.post_ids, post_id)]

\* the accumulation of one term of one post into its entry
AccumulateEntry(e, post_id, tf) ==
    IF SeqContains(e.post_ids, post_id)
    THEN [e EXCEPT !.tf_total = @ + tf]
    ELSE [df |-> e.df + 1, tf_total |-> e.tf_total + tf,
          post_ids |-> Append(e.post_ids, post_id)]

\* for term, tf in freq.items(): accumulate into inverted_index
Accumulate(idx, post_id, freq) ==
    [t \in DOMAIN idx \cup DOMAIN freq |->
        IF t \in DOMAIN freq
        THEN AccumulateEntry(IndexEntry(idx, t), post_id, freq[t])
        ELSE idx[t]]

\* f with key k set to v (dict assignment, file write)
Put(f, k, v) == [x \in DOMAIN f \cup {k} |-> IF x = k THEN v ELSE f[x]]

\* variant of ProcessPost: the per-post file is not written
ProcessPost_NoFile(acc, post) ==
    LET tokens == tokenize_text(post.clean_text)
    IN  IF tokens = <<>> THEN acc
        ELSE [inverted_index |->
                  Accumulate(acc.inverted_index, post.post_id, Counter(tokens)),
              post_metadata |->
                  Put(acc.post_metadata, post.post_id, PostMetadata(post, tokens)),
              files |-> acc.files]

\* variant of ProcessPost: a post without tokens gets a metadata record
ProcessPost_KeepEmpty(acc, post) ==
    LET tokens == tokenize_text(post.clean_text)
    IN  IF tokens = <<>>
        THEN [acc EXCEPT !.post_metadata =
                  Put(acc.post_metadata, post.post_id,
                      [max_tf_term |-> <<>>, max_tf |-> 0, length |-> 0,
                       likes |-> post.likes, comments |-> post.comment_count,
                       date |-> "None"])]
        ELSE [inverted_index |->
                  Accumulate(acc.inverted_index, post.post_id, Counter(tokens)),
              post_metadata |->
                  Put(acc.post_metadata, post.post_id, PostMetadata(post, tokens)),
              files |-> Put(acc.files, post.post_id, Counter(tokens))]

\* the body of the loop over posts, for one post
ProcessPost(acc, post) ==
    LET tokens == tokenize_text(post.clean_text)
    IN  IF tokens = <<>> THEN acc
        ELSE [inverted_index |->
                  Accumulate(acc.inverted_index, post.post_id, Counter(tokens)),
              post_metadata |->
                  Put(acc.post_metadata, post.post_id, PostMetadata(post, tokens)),
              files |-> Put(acc.files, post.post_id, Counter(tokens))]

RECURSIVE ProcessPosts(_, _, _)
\* for idx, post in enumerate(posts)
ProcessPosts(ps, i, acc) ==
    IF i > Len(ps) THEN acc
    ELSE ProcessPosts(ps, i + 1, ProcessPost(acc, ps[i]))

\* query, ret and out describe the last operation: its argument, the
\* value it returned and what it printed
NoQuery == [text |-> <<>>, pid |-> 0]
NoOutput == [signal |-> "none", files |-> {}, pids |-> {}]

\* a JSON artifact that may be absent
Absent == [exists |-> FALSE, data |-> <<>>]
Stored(d) == [exists |-> TRUE, data |-> d]

\* What the pass over the rows c leaves: the two tables in memory and the
\* per-post files it wrote (the pass reads nothing back from the store).
BuildPass(c) ==
    ProcessPosts(c, 1, [inverted_index |-> <<>>, post_metadata |-> <<>>,
                        files |-> <<>>])

\* BuildPass, tabulated over the corpora of the model
BuildPasses == [c \in Corpora |-> BuildPass(c)]

\* the store's per-post files after the files of written were written
WriteFiles(files, written) ==
    [p \in DOMAIN files \cup DOMAIN written |->
        IF p \in DOMAIN written THEN written[p] ELSE files[p]]

\* build_inverted_index over the rows c of the document store
Build(c) ==
    /\ lastOp = "idle"
    /\ posts' = c
    /\ lastOp' = "build"
    /\ IF c = <<>>
       THEN /\ out' = [signal |-> "no_posts", files |-> {}, pids |-> {}]
            /\ UNCHANGED <<index_file, metadata_file, post_files>>
       ELSE /\ index_file' = Stored(BuildPasses[c].inverted_index)
            /\ metadata_file' = Stored(BuildPasses[c].post_metadata)
            /\ post_files' = WriteFiles(post_files, BuildPasses[c].files)
            /\ out' = [signal |-> "built", files |-> {}, pids |-> {}]
    /\ query' = NoQuery
    /\ ret' = <<>>
    /\ UNCHANGED <<engine, removals, normVars, dbVars>>

\* build_inverted_index over the rows c when opening the per-post file of
\* row k raises (OSError): the exception leaves the method, the files of
\* the rows before k are written, the two global artifacts are not
BuildWriteError(c, k) ==
    /\ lastOp = "idle"
    /\ k \in 1..Len(c)
    /\ tokenize_text(c[k].clean_text) # <<>>
    /\ posts' = c
    /\ lastOp' = "build"
    /\ post_files' = WriteFiles(post_files, BuildPasses[SubSeq(c, 1, k - 1)].files)
    /\ out' = [signal |-> "write_error", files |-> {}, pids |-> {c[k].post_id}]
    /\ query' = NoQuery
    /\ ret' = <<>>
    /\ UNCHANGED <<index_file, metadata_file, engine, removals, normVars, dbVars>>

-----------------------------------------------------------------------------
(* SearchEngine *)

\* number of posts a search returns at most (ranked[:20])
TopK == 20

\* SearchEngine._load_json: the content of the file, {} when it is absent
_load_json(file) == IF file.exists THEN file.data ELSE <<>>

\* the paths _load_json reports as "File not found" while the engine loads
NotFoundPaths ==
    (IF index_file.exists THEN {} ELSE {"data_store/inverted_index.json"})
    \cup (IF metadata_file.exists THEN {} ELSE {"data_store/post_metadata.json"})

\* SearchEngine.__init__
LoadedEngine ==
    [up |-> TRUE,
     inverted_index |-> _load_json(index_file),
     post_metadata  |-> _load_json(metadata_file)]

\* The weight math.log(1 + total_docs / df) if df else 0, by its sign: it
\* is positive exactly when df > 0 and total_docs > 0.  All scores of one
\* search are tf * idf for one idf, so they compare as tf * sign(idf).
idf(total_docs, df) == IF df = 0 \/ total_docs = 0 THEN 0 ELSE 1

\* freqs.get(term, 0) * idf for the artifact freqs of one post
TfIdf(freqs, term, w) == (IF term \in DOMAIN freqs THEN freqs[term] ELSE 0) * w

\* scores[PID] = scores.get(PID, 0) + tfidf, on an insertion-ordered dict
AddScore(scores, PID, tfidf) ==
    IF \E k \in 1..Len(scores) : scores[k].pid = PID
    THEN [k \in 1..Len(scores) |->
             IF scores[k].pid = PID
             THEN [pid |-> PID, score |-> scores[k].score + tfidf]
             ELSE scores[k]]
    ELSE Append(scores, [pid |-> PID, score |-> tfidf])

RECURSIVE ScorePosts_StopAtMissing(_, _, _, _, _, _)
\* variant of ScorePosts: the loop ends at the first missing artifact
ScorePosts_StopAtMissing(post_list, i, term, w, files, scores) ==
    IF i > Len(post_list) THEN scores
    ELSE IF post_list[i] \in DOMAIN files
         THEN ScorePosts_StopAtMissing(post_list, i + 1, term, w, files,
                  AddScore(scores, post_list[i],
                           TfIdf(files[post_list[i]], term, w)))
         ELSE scores

RECURSIVE ScorePosts(_, _, _, _, _, _)
\* for PID in post_list: score the post if its artifact exists, else skip it
ScorePosts(post_list, i, term, w, files, scores) ==
    IF i > Len(post_list) THEN scores
    ELSE IF post_list[i] \in DOMAIN files
         THEN ScorePosts(post_list, i + 1, term, w, files,
                  AddScore(scores, post_list[i],
                           TfIdf(files[post_list[i]], term, w)))
         ELSE ScorePosts(post_list, i + 1, term, w, files, scores)

\* variant of RankedPlace: the sort is ascending
RankedPlace_Ascending(scores, i) ==
    1 + Cardinality({ j \in 1..Len(scores) :
            \/ scores[j].score < scores[i].score
            \/ scores[j].score = scores[i].score /\ j < i })

\* place of scores[i] in sorted(scores.items(), key=score, reverse=True):
\* a stable sort, equal scores keep their order in the dict
RankedPlace(scores, i) ==
    1 + Cardinality({ j \in 1..Len(scores) :
            \/ scores[j].score > scores[i].score
            \/ scores[j].score = scores[i].score /\ j < i })

\* sorted(scores.items(), key=lambda x: x[1], reverse=True)
Ranked(scores) ==
    LET place == [i \in 1..Len(scores) |-> RankedPlace(scores, i)]
    IN  [k \in 1..Len(scores) |->
            scores[CHOOSE i \in 1..Len(scores) : place[i] = k]]

\* [PID for PID, _ in ranked[:20]]
TopPosts(ranked) ==
    [k \in 1..(IF Len(ranked) < TopK THEN Len(ranked) ELSE TopK) |-> ranked[k].pid]

\* the ranking part of search, for a term of the index
RankTerm(eng, files, term) ==
    LET post_list  == eng.inverted_index[term].post_ids
        df         == eng.inverted_index[term].df
        total_docs == Cardinality(DOMAIN eng.post_metadata)
        scores     == ScorePosts(post_list, 1, term, idf(total_docs, df),
                                 files, <<>>)
    IN  [ret     |-> TopPosts(Ranked(scores)),
         signal  |-> "ranked",
         skipped |-> { post_list[i] : i \in 1..Len(post_list) } \ DOMAIN files]

\* variant of SearchTerms: an unknown term is ranked over no postings
SearchTerms_NoNotFound(eng, files, terms) ==
    IF terms = <<>>
    THEN [ret |-> <<>>, signal |-> "no_valid_term", skipped |-> {}]
    ELSE IF terms[1] \notin DOMAIN eng.inverted_index
         THEN [ret |-> <<>>, signal |-> "ranked", skipped |-> {}]
         ELSE RankTerm(eng, files, terms[1])

\* variant of SearchTerms: the last term of the query is used
SearchTerms_LastTerm(eng, files, terms) ==
    IF terms = <<>>
    THEN [ret |-> <<>>, signal |-> "no_valid_term", skipped |-> {}]
    ELSE IF terms[Len(terms)] \notin DOMAIN eng.inverted_index
         THEN [ret |-> <<>>, signal |-> "term_not_found", skipped |-> {}]
         ELSE RankTerm(eng, files, terms[Len(terms)])

\* search once the query is preprocessed: only terms[0] is used
SearchTerms(eng, files, terms) ==
    IF terms = <<>>
    THEN [ret |-> <<>>, signal |-> "no_valid_term", skipped |-> {}]
    ELSE IF terms[1] \notin DOMAIN eng.inverted_index
         THEN [ret |-> <<>>, signal |-> "term_not_found", skipped |-> {}]
         ELSE RankTerm(eng, files, terms[1])

\* SearchEngine.search
search(eng, files, Query) == SearchTerms(eng, files, preprocess_query(Query))

\* SearchEngine.show_post_info
show_post_info(eng, post_id) ==
    IF post_id \in DOMAIN eng.post_metadata THEN "found" ELSE "not_found"

\* the queries put to the engine: "Cats", "Cats dogs", "dogs Cats", "The !", "go"
Queries == { Cats, Cats \o Space \o Dogs, Dogs \o Space \o Cats,
             The \o Space \o <<"!">>, Go }

\* the ids show_post_info is asked about
ShownIds == 1..(MaxDocs + 1)

\* a process starts and constructs its SearchEngine
Load ==
    /\ lastOp = "idle"
    /\ engine' = LoadedEngine
    /\ lastOp' = "load"
    /\ out' = [signal |-> "loaded", files |-> NotFoundPaths, pids |-> {}]
    /\ query' = NoQuery
    /\ ret' = <<>>
    /\ UNCHANGED <<storeVars, removals, normVars, dbVars>>

\* engine.search(Query)
Search(Query) ==
    /\ lastOp = "idle"
    /\ engine.up
    /\ LET r == search(engine, post_files, Query)
       IN  /\ ret' = r.ret
           /\ out' = [signal |-> r.signal, files |-> {}, pids |-> r.skipped]
    /\ lastOp' = "search"
    /\ query' = [text |-> Query, pid |-> 0]
    /\ UNCHANGED <<storeVars, engine, removals, normVars, dbVars>>

\* engine.show_post_info(post_id)
ShowPostInfo(post_id) ==
    /\ lastOp = "idle"
    /\ engine.up
    /\ out' = [signal |-> show_post_info(engine, post_id), files |-> {}, pids |-> {}]
    /\ lastOp' = "show"
    /\ query' = [text |-> <<>>, pid |-> post_id]
    /\ ret' = <<>>
    /\ UNCHANGED <<storeVars, engine, removals, normVars, dbVars>>

\* the environment loses one per-document artifact
RemovePostFile(post_id) ==
    /\ lastOp = "idle"
    /\ removals < MaxRemovals
    /\ post_id \in DOMAIN post_files
    /\ post_files' = [p \in DOMAIN post_files \ {post_id} |-> post_files[p]]
    /\ removals' = removals + 1
    /\ lastOp' = "remove"
    /\ query' = NoQuery
    /\ ret' = <<>>
    /\ out' = NoOutput
    /\ UNCHANGED <<posts, index_file, metadata_file, engine, normVars, dbVars>>

\* the operation's output is taken; the next operation can start
Prompt ==
    /\ lastOp # "idle"
    /\ lastOp' = "idle"
    /\ query' = NoQuery
    /\ ret' = <<>>
    /\ out' = NoOutput
    /\ UNCHANGED <<storeVars, engine, removals, normVars, dbVars>>

\* the harness runs both normalisers on its text
Normalize ==
    /\ norm_pc = "input"
    /\ build_tokens' = tokenize_text(clean_text(text))
    /\ query_tokens' = preprocess_query(text)
    /\ norm_pc' = "done"
    /\ UNCHANGED <<storeVars, engine, callVars, removals, text, dbVars>>

-----------------------------------------------------------------------------
(* DataCleaner.clean_and_store_all_posts and the posts table *)

\* A column value: NULL (None in Python) is the empty tuple, any other
\* value v is the tuple <<v>>.
Null == <<>>
Some(v) == <<v>>

\* the columns of the posts table as the dataset creates it
RawColumns == {"post_id", "text", "post_date", "likes", "post_url", "comment_count"}
\* the columns clean_and_store_all_posts drops and adds again
CleanedColumns == {"clean_text", "extracted_urls", "post_date_only", "post_time_only"}
\* the columns named by the SELECT of DBService.fetch_all_posts
FetchedColumns == {"post_id", "text", "post_date", "likes", "post_url"}

\* length of the match of http\S+|www\S+ at position i, 0 if none
ExtractMatchLen(s, i) ==
    LET http == PrefixRunLen(s, i, <<"h","t","t","p">>)
        www  == PrefixRunLen(s, i, <<"w","w","w">>)
    IN  IF http > 0 THEN http ELSE www

RECURSIVE ExtractUrlsFrom(_, _)
ExtractUrlsFrom(s, i) ==
    IF i > Len(s) THEN <<>>
    ELSE IF ExtractMatchLen(s, i) > 0
         THEN <<SubSeq(s, i, i + ExtractMatchLen(s, i) - 1)>>
              \o ExtractUrlsFrom(s, i + ExtractMatchLen(s, i))
         ELSE ExtractUrlsFrom(s, i + 1)
\* DataCleaner.extract_urls: re.findall(r'http\S+|www\S+', text)
extract_urls(s) == ExtractUrlsFrom(s, 1)

RECURSIVE JoinComma(_)
\* ", ".join(urls)
JoinComma(us) ==
    IF us = <<>> THEN <<>>
    ELSE IF Len(us) = 1 THEN us[1]
         ELSE us[1] \o <<",", " ">> \o JoinComma(Tail(us))

\* url == '' or url.isspace()
IsBlank(u) == \A i \in 1..Len(u) : IsSpace(u[i])

DigitChars == <<"0","1","2","3","4","5","6","7","8","9">>
\* a number below 100 in two digits, a number below 10000 in four
Pad2(n) == <<DigitChars[(n \div 10) + 1], DigitChars[(n % 10) + 1]>>
Pad4(n) == Pad2(n \div 100) \o Pad2(n % 100)
\* post_date_raw.strftime('%Y-%m-%d')
DatePart(dt) == Pad4(dt.year) \o <<"-">> \o Pad2(dt.month) \o <<"-">> \o Pad2(dt.day)
\* post_date_raw.strftime('%H:%M:%S')
TimePart(dt) == Pad2(dt.hour) \o <<":">> \o Pad2(dt.minute) \o <<":">> \o Pad2(dt.second)

\* The row after the four columns were dropped and added, the UPDATE of
\* the loop body was executed with the values computed from the fetched
\* post, and the post_date column was dropped.
CleanedRow(post) ==
    LET raw == post.text
        url == post.post_url
    IN  [post EXCEPT
           !.clean_text     = IF raw = Null \/ raw = Some(<<>>) THEN Some(<<>>)
                              ELSE Some(clean_text(raw[1])),
           !.extracted_urls = IF raw = Null \/ raw = Some(<<>>) THEN Null
                              ELSE Some(JoinComma(extract_urls(raw[1]))),
           !.post_url       = IF url # Null /\ IsBlank(url[1]) THEN Null ELSE url,
           !.likes          = IF post.likes # Null /\ post.likes[1] < 0
                              THEN Some(0) ELSE post.likes,
           !.post_date_only = IF post.post_date = Null THEN Null
                              ELSE Some(DatePart(post.post_date[1])),
           !.post_time_only = IF post.post_date = Null THEN Null
                              ELSE Some(TimePart(post.post_date[1])),
           !.post_date      = Null]

\* DBService.fetch_all_posts raises (Unknown column) when the table lacks
\* a column its SELECT names
FetchFails(t) == ~(FetchedColumns \subseteq t.columns)

\* clean_and_store_all_posts on the table t: the table it leaves and how
\* the call ends
clean_and_store_all_posts(t) ==
    IF FetchFails(t) THEN [table |-> t, signal |-> "sql_error"]
    ELSE IF t.rows = <<>> THEN [table |-> t, signal |-> "no_posts"]
    ELSE [table  |-> [columns |-> (t.columns \cup CleanedColumns) \ {"post_date"},
                      rows    |-> [i \in DOMAIN t.rows |-> CleanedRow(t.rows[i])]],
          signal |-> "cleaned"]

\* a datetime of the dataset
ADateTime ==
    [year |-> 2024, month |-> 3, day |-> 9, hour |-> 7, minute |-> 45, second |-> 0]

\* a row of the table as the dataset creates it
RawRow(i, raw, post_date, likes, url) ==
    [post_id |-> i, text |-> raw, post_date |-> post_date, likes |-> likes,
     post_url |-> url, comment_count |-> Some(0),
     clean_text |-> Null, extracted_urls |-> Null,
     post_date_only |-> Null, post_time_only |-> Null]

\* the rows the dataset may hold under id i: with and without text, links,
\* timestamp, url and likes, blank urls and negative likes included
RawRows(i) ==
    { RawRow(i, Some(Cats \o Space \o <<"w","w","w",".","a">>),
                Some(ADateTime), Some(0 - 1), Some(<<" ">>)),
      RawRow(i, Some(Cats \o Space \o CatWord), Null, Some(2), Some(<<"u">>)),
      RawRow(i, Some(<<"h","t","t","p",":","/","/","a">> \o Space \o Dogs),
                Some(ADateTime), Null, Some(<<>>)),
      RawRow(i, Null, Null, Null, Null),
      RawRow(i, Some(<<>>), Some(ADateTime), Some(0), Null),
      RawRow(i, Some(The \o Space \o <<"1","2","!">>), Null, Some(0 - 3), Some(<<"u">>)) }

\* the table without rows
EmptyTable == [columns |-> RawColumns, rows |-> <<>>]

\* the tables the dataset may create
RawTables ==
    { [columns |-> RawColumns, rows |-> r] :
        r \in UNION { { f \in [1..n -> UNION { RawRows(i) : i \in 1..n }] :
                          \A i \in 1..n : f[i].post_id = i } :
                      n \in 0..MaxTableRows } }

\* cleaner.clean_and_store_all_posts(db)
CleanAndStore ==
    /\ lastOp = "idle"
    /\ LET r == clean_and_store_all_posts(db_posts)
       IN  /\ db_posts' = r.table
           /\ out' = [signal |-> r.signal, files |-> {}, pids |-> {}]
    /\ lastOp' = "clean"
    /\ query' = NoQuery
    /\ ret' = <<>>
    /\ UNCHANGED <<storeVars, engine, removals, normVars>>

-----------------------------------------------------------------------------
(* Specifications *)

InitStore ==
    /\ posts = <<>>
    /\ index_file = Absent
    /\ metadata_file = Absent
    /\ post_files = <<>>
    /\ engine = [up |-> FALSE, inverted_index |-> <<>>, post_metadata |-> <<>>]
    /\ lastOp = "idle"
    /\ query = NoQuery
    /\ ret = <<>>
    /\ out = NoOutput
    /\ removals = 0
    /\ db_posts = EmptyTable

\* the pipeline: builds, engine loads, searches; the builder is the only
\* writer of the artifact store
Init ==
    /\ InitStore
    /\ text = <<>>
    /\ build_tokens = <<>>
    /\ query_tokens = <<>>
    /\ norm_pc = "idle"

Next ==
    \/ \E c \in SmallCorpora : Build(c)
    \/ Load
    \/ \E q \in Queries : Search(q)
    \/ \E p \in ShownIds : ShowPostInfo(p)
    \/ Prompt

Spec == Init /\ [][Next]_vars

\* the pipeline over the large corpus, with an environment that may lose
\* per-document artifacts
NextFault ==
    \/ \E c \in RankCorpora : Build(c)
    \/ Load
    \/ \E q \in Queries : Search(q)
    \/ \E p \in ShownIds : ShowPostInfo(p)
    \/ \E p \in ShownIds : RemovePostFile(p)
    \/ Prompt

SpecFault == Init /\ [][NextFault]_vars

\* the normalisation harness: any text, given to both normalisers
InitNorm ==
    /\ InitStore
    /\ text \in HarnessTexts
    /\ build_tokens = <<>>
    /\ query_tokens = <<>>
    /\ norm_pc = "input"

NextNorm == Normalize

SpecNorm == InitNorm /\ [][NextNorm]_vars

\* the builder and the engine over the rows the document store returns,
\* in any order and possibly repeated, with a file system that may refuse
\* the write of a per-post file
InitRows ==
    /\ posts \in RowCorpora
    /\ index_file = Absent
    /\ metadata_file = Absent
    /\ post_files = <<>>
    /\ engine = [up |-> FALSE, inverted_index |-> <<>>, post_metadata |-> <<>>]
    /\ lastOp = "idle"
    /\ query = NoQuery
    /\ ret = <<>>
    /\ out = NoOutput
    /\ removals = 0
    /\ db_posts = EmptyTable
    /\ text = <<>>
    /\ build_tokens = <<>>
    /\ query_tokens = <<>>
    /\ norm_pc = "idle"

NextRows ==
    \/ Build(posts)
    \/ \E k \in 1..MaxDocs : BuildWriteError(posts, k)
    \/ Load
    \/ \E q \in Queries : Search(q)
    \/ Prompt

SpecRows == InitRows /\ [][NextRows]_vars

\* the preprocessing write-back, run any number of times on a table of the
\* dataset
InitClean ==
    /\ db_posts \in RawTables
    /\ posts = <<>>
    /\ index_file = Absent
    /\ metadata_file = Absent
    /\ post_files = <<>>
    /\ engine = [up |-> FALSE, inverted_index |-> <<>>, post_metadata |-> <<>>]
    /\ lastOp = "idle"
    /\ query = NoQuery
    /\ ret = <<>>
    /\ out = NoOutput
    /\ removals = 0
    /\ text = <<>>
    /\ build_tokens = <<>>
    /\ query_tokens = <<>>
    /\ norm_pc = "idle"

NextClean ==
    \/ CleanAndStore
    \/ Prompt

SpecClean == InitClean /\ [][NextClean]_vars

-----------------------------------------------------------------------------
(* Properties *)

\* C1: for every text, preprocess_query yields the token sequence that the
\* build-time clean_text (followed by the index tokenizer) yields.
C1_SameTokens == norm_pc = "done" => query_tokens = build_tokens

\* the tokens the builder reads from a row
RowTokens(post) == tokenize_text(post.clean_text)

\* the ids in the postings of a term of the stored index
PostingIds(term) ==
    { index_file.data[term].post_ids[i] :
        i \in 1..Len(index_file.data[term].post_ids) }

\* the frequency of term in the per-document artifact of post d, 0 if the
\* artifact or the term is missing
StoredTf(d, term) ==
    IF d \in DOMAIN post_files /\ term \in DOMAIN post_files[d]
    THEN post_files[d][term] ELSE 0

RECURSIVE SumStoredTf(_, _)
SumStoredTf(ids, term) ==
    IF ids = {} THEN 0
    ELSE LET d == CHOOSE x \in ids : TRUE
         IN  StoredTf(d, term) + SumStoredTf(ids \ {d}, term)

\* C2: after a build, no postings list holds a document id twice and df is
\* the number of distinct ids in the list.
C2_DfIsPostingCount ==
    lastOp = "build" =>
        \A term \in DOMAIN index_file.data :
            LET e == index_file.data[term]
            IN  /\ \A i, j \in 1..Len(e.post_ids) :
                       e.post_ids[i] = e.post_ids[j] => i = j
                /\ e.df = Cardinality(PostingIds(term))

C2_Witness ==
    /\ lastOp = "build"
    /\ \E term \in DOMAIN index_file.data : index_file.data[term].df = 2

C4_PostingsHaveArtifacts ==
    lastOp = "build" =>
        \A term \in DOMAIN index_file.data :
            \A d \in PostingIds(term) :
                /\ d \in DOMAIN post_files
                /\ term \in DOMAIN post_files[d]
                /\ post_files[d][term] > 0

\* a rebuild that found artifacts of an earlier build in the store
C4_Witness ==
    /\ lastOp = "build"
    /\ out.signal = "built"
    /\ index_file.data # <<>>
    /\ \E d \in DOMAIN post_files :
           \A term \in DOMAIN index_file.data : d \notin PostingIds(term)

\* the engine holds the tables that are in the store now
EngineFresh ==
    /\ engine.up
    /\ index_file.exists
    /\ metadata_file.exists
    /\ engine.inverted_index = index_file.data
    /\ engine.post_metadata = metadata_file.data

\* the ids of the rows of the last build whose token sequence is empty
EmptyDocIds == { posts[i].post_id : i \in { j \in 1..Len(posts) : RowTokens(posts[j]) = <<>> } }

\* C5: a document whose token sequence is empty is in no postings list and
\* not in the metadata table after the build, and show_post_info of an
\* engine loaded from that build reports it as not found.
C5_EmptyDocExcluded ==
    /\ lastOp = "build" =>
           \A d \in EmptyDocIds :
               /\ d \notin DOMAIN metadata_file.data
               /\ \A term \in DOMAIN index_file.data : d \notin PostingIds(term)
    /\ (lastOp = "show" /\ EngineFresh /\ query.pid \in EmptyDocIds) =>
           out.signal = "not_found"

\* show_post_info is asked about a document that an earlier build indexed
\* and whose text the last build found empty
C5_Witness ==
    /\ lastOp = "show"
    /\ EngineFresh
    /\ query.pid \in EmptyDocIds
    /\ query.pid \in DOMAIN post_files
    /\ metadata_file.data # <<>>
    /\ out.signal = "not_found"

\* C6: when the postings or the metadata artifact is absent, the load fails
\* and leaves the engine unloaded, and search and show_post_info answer
\* "not ready".
C6_AbsentArtifactNotReady ==
    /\ (lastOp = "load" /\ NotFoundPaths # {}) => ~engine.up
    /\ (lastOp \in {"search", "show"} /\ NotFoundPaths # {}) =>
           out.signal = "not_ready"

ScoreOf(d, term) ==
    TfIdf(post_files[d], term,
          idf(Cardinality(DOMAIN engine.post_metadata),
              engine.inverted_index[term].df))

\* the postings documents of a term whose per-document artifact exists
Scorable(term) ==
    { engine.inverted_index[term].post_ids[i] :
        i \in 1..Len(engine.inverted_index[term].post_ids) } \cap DOMAIN post_files

\* C8: for a term of the postings table, search returns min(20, number of
\* postings documents whose artifact exists) documents, ordered from the
\* highest score to the lowest, and no document left out scores strictly
\* higher than a returned one.
C8_TopKByScore ==
    (lastOp = "search" /\ out.signal = "ranked") =>
        LET term == preprocess_query(query.text)[1]
            n    == Cardinality(Scorable(term))
        IN  /\ Len(ret) = (IF n < TopK THEN n ELSE TopK)
            /\ \A k \in 1..Len(ret) : ret[k] \in Scorable(term)
            /\ \A j, k \in 1..Len(ret) : ret[j] = ret[k] => j = k
            /\ \A k \in 1..(Len(ret) - 1) :
                   ScoreOf(ret[k], term) >= ScoreOf(ret[k + 1], term)
            /\ \A d \in Scorable(term) \ Range(ret) :
                   \A k \in 1..Len(ret) :
                       ScoreOf(d, term) <= ScoreOf(ret[k], term)

\* more than 20 documents can be scored, their scores differ, and one
\* artifact of the postings is lost
C8_Witness ==
    /\ lastOp = "search"
    /\ out.signal = "ranked"
    /\ out.pids # {}
    /\ Len(ret) = TopK
    /\ Cardinality(Scorable(preprocess_query(query.text)[1])) > TopK
    /\ ScoreOf(ret[1], preprocess_query(query.text)[1])
           > ScoreOf(ret[TopK], preprocess_query(query.text)[1])

\* C9: the result of a search depends only on the first token of the
\* normalised query: a query with the same first token gets the same
\* result from the same engine and store.
C9_FirstTokenDecides ==
    lastOp = "search" =>
        \A q \in Queries :
            LET mine   == preprocess_query(query.text)
                theirs == preprocess_query(q)
            IN  (mine # <<>> /\ theirs # <<>> /\ mine[1] = theirs[1]) =>
                    /\ search(engine, post_files, q).ret = ret
                    /\ search(engine, post_files, q).signal = out.signal

\* a query of two tokens, both in the index with different postings, is
\* answered with the documents of the first
C9_Witness ==
    /\ lastOp = "search"
    /\ Len(preprocess_query(query.text)) = 2
    /\ \A i \in 1..2 : preprocess_query(query.text)[i] \in DOMAIN engine.inverted_index
    /\ engine.inverted_index[preprocess_query(query.text)[1]].post_ids
           # engine.inverted_index[preprocess_query(query.text)[2]].post_ids
    /\ ret # <<>>
    /\ \E q \in Queries : Len(preprocess_query(q)) = 1
                          /\ preprocess_query(q)[1] = preprocess_query(query.text)[1]

\* the ids of the rows of the last build that have tokens
IndexedDocIds ==
    { posts[i].post_id : i \in { j \in 1..Len(posts) : RowTokens(posts[j]) # <<>> } }

\* the terms of the rows of the last build
CorpusTerms == UNION { Range(RowTokens(posts[i])) : i \in 1..Len(posts) }

\* C10: after a rebuild (here: one over a corpus that has rows) the store
\* holds only artifacts of the new corpus: no term, no metadata record and
\* no per-document artifact that the new corpus does not give.
C10_RebuildReplaces ==
    (lastOp = "build" /\ posts # <<>>) =>
        /\ DOMAIN index_file.data \subseteq CorpusTerms
        /\ DOMAIN metadata_file.data \subseteq IndexedDocIds
        /\ DOMAIN post_files \subseteq IndexedDocIds

\* C11: a build over an empty corpus completes, reports that no document
\* was indexed and leaves an empty postings artifact and an empty metadata
\* artifact in the store, whatever the store held before.
C11_EmptyBuildEmptyArtifacts ==
    (lastOp = "build" /\ posts = <<>>) =>
        /\ out.signal \in {"no_posts", "built"}
        /\ index_file = Stored(<<>>)
        /\ metadata_file = Stored(<<>>)

\* the engine as it would be if the postings of term held only the
\* documents whose per-document artifact exists
WithoutMissing(term) ==
    LET Present(d) == d \in DOMAIN post_files
    IN  [engine EXCEPT !.inverted_index[term].post_ids = SelectSeq(@, Present)]

\* C12: a search for a term of the postings table does not fail when
\* per-document artifacts are missing: it warns about exactly the postings
\* documents without artifact, and returns the ranking it would return if
\* those documents were not in the postings.
C12_MissingArtifactSkipped ==
    (/\ lastOp = "search"
     /\ preprocess_query(query.text) # <<>>
     /\ preprocess_query(query.text)[1] \in DOMAIN engine.inverted_index) =>
        LET term == preprocess_query(query.text)[1]
        IN  /\ out.signal = "ranked"
            /\ out.pids = Range(engine.inverted_index[term].post_ids)
                              \ DOMAIN post_files
            /\ ret = search(WithoutMissing(term), post_files, query.text).ret
            /\ Range(ret) \subseteq DOMAIN post_files

\* an artifact is missing in the middle of the postings, and documents
\* after it are returned
C12_Witness ==
    /\ lastOp = "search"
    /\ out.signal = "ranked"
    /\ \E d \in out.pids : \E k \in 1..Len(ret) : ret[k] > d
    /\ Len(ret) = TopK

\* the rows of s in every order
RowOrders(s) ==
    { [k \in 1..Len(s) |-> s[g[k]]] :
        g \in { h \in [1..Len(s) -> 1..Len(s)] :
                  \A i, j \in 1..Len(s) : h[i] = h[j] => i = j } }

\* the engine loaded from the artifacts of a build over the rows c
EngineOf(c) ==
    [up |-> TRUE,
     inverted_index |-> BuildPasses[c].inverted_index,
     post_metadata  |-> BuildPasses[c].post_metadata]

\* C13: documents of equal score are ordered by a fixed key of the
\* document, so the result of a search is the same whatever order the
\* rows were processed in: an engine loaded from a build over the same rows
\* in another order returns the same list.
C13_TiesByFixedKey ==
    (/\ lastOp = "search"
     /\ out.signal = "ranked"
     /\ posts # <<>>
     /\ engine = EngineOf(posts)) =>
        \A p \in RowOrders(posts) :
            search(EngineOf(p), post_files, query.text).ret = ret

RECURSIVE FirstOccurrences(_, _)
\* the rows of s without the rows that repeat an earlier row of s
FirstOccurrences(s, k) ==
    IF k > Len(s) THEN <<>>
    ELSE IF \E j \in 1..(k - 1) : s[j] = s[k]
         THEN FirstOccurrences(s, k + 1)
         ELSE <<s[k]>> \o FirstOccurrences(s, k + 1)

\* C15: processing a row a second time in one build changes nothing in the
\* postings table: df, postings and tf_total of every term are those of
\* the build that processes every row once.
C15_ReprocessIdempotent ==
    (lastOp = "build" /\ out.signal = "built") =>
        index_file.data = BuildPass(FirstOccurrences(posts, 1)).inverted_index

\* C16: a build in which the write of one row's per-post file fails goes
\* on with the other rows and writes the two global artifacts, which cover
\* every other row that has tokens.
C16_WriteErrorSkipsOneRow ==
    (lastOp = "build" /\ out.signal = "write_error") =>
        /\ index_file.exists
        /\ metadata_file.exists
        /\ \A i \in 1..Len(posts) :
               (RowTokens(posts[i]) # <<>> /\ posts[i].post_id \notin out.pids) =>
                   /\ posts[i].post_id \in DOMAIN metadata_file.data
                   /\ posts[i].post_id \in DOMAIN post_files

\* C14: the dominant term stored for an indexed document has the largest
\* frequency in the document, the stored frequency is that maximum, and
\* the term is fixed by the document's terms and frequencies alone: every
\* ordering of the document's tokens gives the same dominant term.
C14_DominantTermFixed ==
    (lastOp = "build" /\ out.signal = "built") =>
        \A i \in 1..Len(posts) :
            LET tokens == RowTokens(posts[i])
                freq   == Counter(tokens)
                meta   == metadata_file.data[posts[i].post_id]
            IN  tokens # <<>> =>
                    /\ meta.max_tf_term \in DOMAIN freq
                    /\ meta.max_tf = freq[meta.max_tf_term]
                    /\ \A t \in DOMAIN freq : freq[t] <= meta.max_tf
                    /\ \A o \in RowOrders(tokens) :
                           MaxTfTerm(o) = meta.max_tf_term

\* the columns whose values the write-back computes
WrittenColumns ==
    {"clean_text", "extracted_urls", "post_url", "likes",
     "post_date_only", "post_time_only"}

\* C17: clean_and_store_all_posts run on a table it has already processed
\* completes without error and leaves every row's clean_text, extracted
\* urls, url, likes (never negative), date and time as the first run left
\* them, rows without timestamp included.
C17_RerunKeepsValues ==
    [][(lastOp' = "clean" /\ CleanedColumns \subseteq db_posts.columns) =>
          /\ out'.signal = "cleaned"
          /\ WrittenColumns \subseteq db_posts'.columns
          /\ Len(db_posts'.rows) = Len(db_posts.rows)
          /\ \A i \in 1..Len(db_posts.rows) :
                 /\ db_posts'.rows[i].clean_text = db_posts.rows[i].clean_text
                 /\ db_posts'.rows[i].extracted_urls = db_posts.rows[i].extracted_urls
                 /\ db_posts'.rows[i].post_url = db_posts.rows[i].post_url
                 /\ db_posts'.rows[i].likes = db_posts.rows[i].likes
                 /\ db_posts'.rows[i].post_date_only = db_posts.rows[i].post_date_only
                 /\ db_posts'.rows[i].post_time_only = db_posts.rows[i].post_time_only
                 /\ (db_posts'.rows[i].likes # Null =>
                         db_posts'.rows[i].likes[1] >= 0)]_vars

=============================================================================
